---- MODULE Spec2Model ----
(***************************************************************************)
(* Refund consolidation for a Lunch Money ledger.                          *)
(*                                                                         *)
(*   consolidate_refunds.py : fetch the window page by page, index the     *)
(*     transactions by amount and by id, match refunds with charges, ask   *)
(*     for confirmation, save the originals and update the ledger.         *)
(*   rollback_refunds.py    : load the saved originals and write them back.*)
(*                                                                         *)
(* The remote ledger and the data/ directory are the two pieces of state   *)
(* that outlive a run.  Python dicts are modelled with their insertion     *)
(* order, strings that the code inspects (payee, console answer) as        *)
(* sequences of characters, dates as day numbers.                          *)
(***************************************************************************)
EXTENDS Integers, Sequences, FiniteSets, TLC

\* ---------------------------------------------------------------- bounds
MaxTx == 3          \* transactions in the remote ledger
MaxRuns == 2        \* script launches (consolidate or rollback) in a session
MaxMatchTx == 4     \* transactions in the ledgers of the matching runs
MaxRerunTx == 4     \* transactions in the ledgers of the repeated runs

TxIds == 1..MaxTx

\* ------------------------------------------------------------ data domain
PayeeA == <<"A">>
PayeeB == <<"B">>

\* the windows the operator types, as day numbers
Windows == {<<1, 40>>, <<1, 10>>, <<10, 10>>, <<40, 10>>}

\* what the operator may type at the confirmation prompt
Answers == { <<"y","e","s">>, <<"Y","E","S">>, <<"y">>, <<"n","o">>, <<>> }

\* the initial ledgers: every assignment of an amount, a payee and a day to each
\* id, up to renaming the ids (the kinds are taken in non-decreasing order)
AmountSeq == <<"1.00", "1.0", "-1.00">>
PayeeSeq == <<PayeeA, PayeeB>>
DaySeq == <<1, 10, 40>>
Kinds == 0..(Len(AmountSeq) * Len(PayeeSeq) * Len(DaySeq) - 1)
KindRecord(i, k) ==
    [id |-> i,
     amount |-> AmountSeq[(k % Len(AmountSeq)) + 1],
     payee |-> PayeeSeq[((k \div Len(AmountSeq)) % Len(PayeeSeq)) + 1],
     date |-> DaySeq[(k \div (Len(AmountSeq) * Len(PayeeSeq))) + 1]]

\* the ledgers of the matching runs: two amounts and their opposites, so that
\* two charge/refund pairs can stand side by side (one payee: the pairing
\* reads amounts and ids only)
MatchTxIds == 1..MaxMatchTx
MatchAmountSeq == <<"1.00", "-1.00", "2.00", "-2.00">>
MatchKinds == 0..(Len(MatchAmountSeq) * Len(DaySeq) - 1)
MatchKindRecord(i, k) ==
    [id |-> i,
     amount |-> MatchAmountSeq[(k % Len(MatchAmountSeq)) + 1],
     payee |-> PayeeA,
     date |-> DaySeq[(k \div Len(MatchAmountSeq)) + 1]]

\* the ledgers of the repeated runs: one amount and its opposite under one
\* payee, so that two charges and two refunds of the same amount can stand side
\* by side
RerunTxIds == 1..MaxRerunTx
RerunAmountSeq == <<"1.00", "-1.00">>
RerunKinds == 0..(Len(RerunAmountSeq) * Len(DaySeq) - 1)
RerunKindRecord(i, k) ==
    [id |-> i,
     amount |-> RerunAmountSeq[(k % Len(RerunAmountSeq)) + 1],
     payee |-> PayeeA,
     date |-> DaySeq[(k \div Len(RerunAmountSeq)) + 1]]

\* ------------------------------------------------------- python built-ins
Range(s) == {s[i] : i \in DOMAIN s}

Max(a, b) == IF a > b THEN a ELSE b

\* float(tx['amount'])
Float(s) ==
    CASE s = "1.00" -> 1
      [] s = "1.0" -> 1
      [] s = "-1.00" -> -1
      [] s = "2.00" -> 2
      [] s = "-2.00" -> -2
      [] s = "0.00" -> 0
      [] s = "-0.00" -> 0

\* str.lower() on the characters the prompt can receive
LowerChar(c) ==
    CASE c = "Y" -> "y"
      [] c = "E" -> "e"
      [] c = "S" -> "s"
      [] c = "N" -> "n"
      [] c = "O" -> "o"
      [] OTHER -> c

Lower(s) == [i \in DOMAIN s |-> LowerChar(s[i])]

\* sub in s
Contains(sub, s) ==
    \E i \in 0..(Len(s) - Len(sub)) : SubSeq(s, i + 1, i + Len(sub)) = sub

RefundedWord == <<"r","e","f","u","n","d","e","d">>
RefundedSuffix == <<" ", "(">> \o RefundedWord \o <<")">>

\* a dict: its keys in insertion order and its values
EmptyDict == [keys |-> <<>>, val |-> <<>>]

Has(d, k) == k \in DOMAIN d.val

\* d[k] = v
DictSet(d, k, v) ==
    [keys |-> IF Has(d, k) THEN d.keys ELSE Append(d.keys, k),
     val |-> [x \in (DOMAIN d.val) \cup {k} |-> IF x = k THEN v ELSE d.val[x]]]

KeySet(d) == DOMAIN d.val

\* ------------------------------------------------------------- the remote
\* GET /v1/transactions?start_date=..&end_date=.. answers with the ledger's
\* transactions dated inside the (inclusive) range, in an order the API chooses
InRange(ldg, s, e) == {i \in DOMAIN ldg : s <= ldg[i].date /\ ldg[i].date <= e}

Orders(S) ==
    {o \in [1..Cardinality(S) -> S] : \A i, j \in 1..Cardinality(S) : i # j => o[i] # o[j]}

RemoteGet(ldg, s, e) == {[i \in DOMAIN o |-> ldg[o[i]]] : o \in Orders(InRange(ldg, s, e))}

\* f"{BASE_URL}/{transaction_id}" : the id as text, from an int (consolidate)
\* or from a JSON object key (rollback)
PathOfId(tx_id) == ToString(tx_id)
PathOfKey(key) == key

\* PUT {"transaction": body} sets the fields the body carries on the addressed
\* transaction and leaves its other fields alone
RemotePut(ldg, path, body) ==
    [i \in DOMAIN ldg |->
        IF ToString(i) = path
        THEN [k \in DOMAIN ldg[i] |-> IF k \in DOMAIN body THEN body[k] ELSE ldg[i][k]]
        ELSE ldg[i]]

\* revert_transaction(transaction_id, original_metadata): one update request
\* carrying the given record; the ledger changes when the request succeeds
RevertTransaction(ldg, transaction_id, original_metadata, ok) ==
    IF ok THEN RemotePut(ldg, PathOfId(transaction_id), original_metadata) ELSE ldg

\* ------------------------------------------------------------ the data dir
\* f'data/original_metadata_{start_date}_{end_date}.json'
WindowFile(s, e) == <<"data/original_metadata", s, e>>
\* 'data/original_metadata.json'
DefaultFile == <<"data/original_metadata">>

FileNames == {DefaultFile} \cup {WindowFile(w[1], w[2]) : w \in Windows}

NoFile == [exists |-> FALSE, data |-> EmptyDict]

\* json.dump followed by json.load: object keys come back as strings
JsonDump(d) ==
    [keys |-> [i \in DOMAIN d.keys |-> ToString(d.keys[i])],
     val |-> [s \in {ToString(k) : k \in KeySet(d)} |->
                 d.val[CHOOSE k \in KeySet(d) : ToString(k) = s]]]

\* ------------------------------------------------------ gather_transactions
\* variant: an amount keeps the first id that was indexed under it
IndexTxFirstWins(index, tx) ==
    [amount_to_id |-> IF Has(index.amount_to_id, Float(tx.amount))
                      THEN index.amount_to_id
                      ELSE DictSet(index.amount_to_id, Float(tx.amount), tx.id),
     id_to_metadata |-> DictSet(index.id_to_metadata, tx.id, tx)]

\* one turn of "for tx in transactions"
IndexTx(index, tx) ==
    [amount_to_id |-> DictSet(index.amount_to_id, Float(tx.amount), tx.id),
     id_to_metadata |-> DictSet(index.id_to_metadata, tx.id, tx)]

RECURSIVE IndexPage(_, _)
IndexPage(index, transactions) ==
    IF transactions = <<>> THEN index
    ELSE IndexPage(IndexTx(index, Head(transactions)), Tail(transactions))

\* current_start_date of the sub-window that ends at current_end
\* get_transactions_for_month: "except requests.RequestException" covers the
\* failures of the request, and the function answers []
\* variant: the failure is not caught
FetchFailureRaised == FALSE

FetchFailureCaught == TRUE

WindowLength == 30
CurrentStart(current_end, start) == Max(current_end - WindowLength, start)

\* ----------------------------------------------------- process_transactions
\* variant: every non-zero amount is taken for a refund
IsNonZero(amount) == amount # 0

IsNegative(amount) == amount < 0


NegativeAmountToId(amount_to_id) ==
    [keys |-> SelectSeq(amount_to_id.keys, IsNegative),
     val |-> [a \in {k \in KeySet(amount_to_id) : IsNegative(k)} |-> amount_to_id.val[a]]]

RECURSIVE ChargeToRefundFrom(_, _, _)
ChargeToRefundFrom(charge_to_refund, amounts, amount_to_id) ==
    IF amounts = <<>> THEN charge_to_refund
    ELSE LET amount == Head(amounts)
             next == IF Has(amount_to_id, -amount)
                     THEN DictSet(charge_to_refund, amount_to_id.val[-amount],
                                  amount_to_id.val[amount])
                     ELSE charge_to_refund
         IN ChargeToRefundFrom(next, Tail(amounts), amount_to_id)

ChargeToRefund(amount_to_id) ==
    ChargeToRefundFrom(EmptyDict, NegativeAmountToId(amount_to_id).keys, amount_to_id)

\* variant: only the payees are compared
QualifiesPayeeOnly(charge, refund) == charge.payee = refund.payee

\* variant: only the dates are compared
QualifiesDateOnly(charge, refund) == charge.date # refund.date

\* variant: the payees are not compared
QualifiesNoPayeeCheck(charge, refund) ==
    /\ charge.date # refund.date
    /\ ~Contains(RefundedWord, charge.payee)

\* variant: the dates are not compared
QualifiesNoDateGuard(charge, refund) ==
    /\ charge.payee = refund.payee
    /\ ~Contains(RefundedWord, charge.payee)

Qualifies(charge, refund) ==
    /\ charge.payee = refund.payee
    /\ charge.date # refund.date
    /\ ~Contains(RefundedWord, charge.payee)

\* variant: the patch value carries the charge's amount too
UpdatedMetadataWithAmount(charge) ==
    [payee |-> charge.payee \o RefundedSuffix, date |-> charge.date,
     amount |-> charge.amount]

\* variant: the label is appended without the space
UpdatedMetadataNoSpace(charge) ==
    [payee |-> charge.payee \o <<"(">> \o RefundedWord \o <<")">>, date |-> charge.date]

UpdatedMetadata(charge) ==
    [payee |-> charge.payee \o RefundedSuffix, date |-> charge.date]

\* variant: the refund's entry is assigned before the charge's
PatchPairRefundFirst(patch, charge_id, refund_id, updated_metadata) ==
    DictSet(DictSet(patch, refund_id, updated_metadata), charge_id, updated_metadata)

\* the two assignments into tx_to_update_metadata: the charge, then the refund
PatchPair(patch, charge_id, refund_id, updated_metadata) ==
    DictSet(DictSet(patch, charge_id, updated_metadata), refund_id, updated_metadata)

RECURSIVE PatchFrom(_, _, _, _)
PatchFrom(patch, charges, charge_to_refund, id_to_metadata) ==
    IF charges = <<>> THEN patch
    ELSE LET charge_id == Head(charges)
             refund_id == charge_to_refund.val[charge_id]
             charge == id_to_metadata.val[charge_id]
             refund == id_to_metadata.val[refund_id]
             next == IF Qualifies(charge, refund)
                     THEN PatchPair(patch, charge_id, refund_id, UpdatedMetadata(charge))
                     ELSE patch
         IN PatchFrom(next, Tail(charges), charge_to_refund, id_to_metadata)

ProcessTransactions(amount_to_id, id_to_metadata) ==
    LET charge_to_refund == ChargeToRefund(amount_to_id)
    IN PatchFrom(EmptyDict, charge_to_refund.keys, charge_to_refund, id_to_metadata)

\* ------------------------------------------- preview_and_confirm_updates
\* variant: any answer that begins with a y is taken for a yes
ConfirmedStartsWithY(confirm_update) ==
    confirm_update # <<>> /\ LowerChar(confirm_update[1]) = "y"

Confirmed(confirm_update) == Lower(confirm_update) = <<"y","e","s">>

\* -------------------------------------------------------- perform_updates
\* variant: the new values are saved instead of the fetched records
OriginalMetadataFromPatch(patch, id_to_metadata) == patch

OriginalMetadata(patch, id_to_metadata) ==
    [keys |-> patch.keys,
     val |-> [tx_id \in KeySet(patch) |-> id_to_metadata.val[tx_id]]]

\* ---------------------------------------------------- validate_date_range
ValidDateRange(s, e) == ~(s > e)

\* ------------------------------------------------- rollback_transactions
\* load_original_metadata_from_file() with its default filename
LoadOriginalMetadata(fs) ==
    IF fs[DefaultFile].exists THEN fs[DefaultFile].data ELSE EmptyDict

\* "if not original_metadata"
NoOriginalsNever(loaded) == FALSE
NoOriginals(loaded) == loaded.keys = <<>>

\* the two update loops: does the loop go on after an update that returned ok?
ApplyContinuesAlways(ok) == TRUE
ApplyContinues(ok) == ok
RollbackStopsOnFailure(ok) == ok
RollbackContinues(ok) == TRUE

\* ------------------------------------------------------------------ state
VARIABLES
    ledger,                 \* the remote ledger: id -> transaction
    files,                  \* the data directory: file name -> content
    pc,                     \* where the running script is ("idle": none runs)
    runs,                   \* scripts launched so far
    outcome,                \* how the last consolidate run ended
    rb_outcome,             \* how the last rollback run ended
    start_date, end_date,   \* main: the window typed by the operator
    current_end_date,       \* gather_transactions
    amount_to_id, id_to_metadata,
    consumed,               \* the transactions consumed so far, in order
    pages,                  \* the sub-window fetches issued so far
    tx_to_update_metadata,  \* the patch
    confirm_update,         \* the answer typed at the prompt
    pos,                    \* position of the running update loop
    original_metadata,      \* rollback: the loaded originals
    calls,                  \* update_transaction calls of the consolidate run
    rb_calls,               \* update_transaction calls of the rollback run
    pre,                    \* the ledger when the last consolidate run began
    rb_pre,                 \* the ledger when the last rollback run began
    prev,                   \* what the consolidate run before left, if no
                            \* rollback ran since: its amount index when every
                            \* update of its non-empty patch succeeded; its
                            \* window and the pair it left half updated when
                            \* it stopped between a charge and its refund
    origin                  \* the ledger before any script ran

vars == <<ledger, files, pc, runs, outcome, rb_outcome, start_date, end_date,
          current_end_date, amount_to_id, id_to_metadata, consumed, pages,
          tx_to_update_metadata, confirm_update, pos, original_metadata, calls,
          rb_calls, pre, rb_pre, prev, origin>>

\* what a consolidate run keeps, and what a rollback run keeps
mainLocals == <<start_date, end_date, current_end_date, amount_to_id,
                id_to_metadata, consumed, pages, tx_to_update_metadata,
                confirm_update, calls, pre, outcome, prev>>
rbLocals == <<original_metadata, rb_calls, rb_pre, rb_outcome>>

NoPrev == [applied |-> FALSE, amount_to_id |-> EmptyDict, window |-> <<>>,
           interrupted |-> <<>>]

\* the pairs <<charge id, refund id>> of the patch whose charge the run has
\* updated and whose refund it has not
InterruptedPairs ==
    LET charge_to_refund == ChargeToRefund(amount_to_id)
    IN {<<c, charge_to_refund.val[c]>> : c \in
           {x \in KeySet(charge_to_refund) :
               /\ Has(tx_to_update_metadata, x)
               /\ ledger[x] # pre[x]
               /\ ledger[charge_to_refund.val[x]] = pre[charge_to_refund.val[x]]}}

\* no script has run yet
InitLocals ==
    /\ files = [n \in FileNames |-> NoFile]
    /\ pc = "idle"
    /\ runs = 0
    /\ outcome = "none"
    /\ rb_outcome = "none"
    /\ start_date = 0
    /\ end_date = 0
    /\ current_end_date = 0
    /\ amount_to_id = EmptyDict
    /\ id_to_metadata = EmptyDict
    /\ consumed = <<>>
    /\ pages = <<>>
    /\ tx_to_update_metadata = EmptyDict
    /\ confirm_update = <<>>
    /\ pos = 0
    /\ original_metadata = EmptyDict
    /\ calls = <<>>
    /\ rb_calls = <<>>
    /\ pre = ledger
    /\ rb_pre = ledger
    /\ prev = NoPrev
    /\ origin = ledger

Init ==
    /\ \E k \in [TxIds -> Kinds] :
          /\ \A i \in TxIds : i + 1 \in TxIds => k[i] <= k[i + 1]
          /\ ledger = [i \in TxIds |-> KindRecord(i, k[i])]
    /\ InitLocals

\* the repeated runs start from ledgers of same-amount charges and refunds
InitRerun ==
    /\ \E k \in [RerunTxIds -> RerunKinds] :
          /\ \A i \in RerunTxIds : i + 1 \in RerunTxIds => k[i] <= k[i + 1]
          /\ ledger = [i \in RerunTxIds |-> RerunKindRecord(i, k[i])]
    /\ InitLocals

\* the matching runs start from the wider ledgers
InitMatch ==
    /\ \E k \in [MatchTxIds -> MatchKinds] :
          /\ \A i \in MatchTxIds : i + 1 \in MatchTxIds => k[i] <= k[i + 1]
          /\ ledger = [i \in MatchTxIds |-> MatchKindRecord(i, k[i])]
    /\ InitLocals

\* main(): the dates are read and validated; an accepted window starts
\* gather_transactions (what an earlier rollback process held is gone)
StartMain(w) ==
    /\ pc = "idle"
    /\ runs < MaxRuns
    /\ runs' = runs + 1
    /\ start_date' = w[1]
    /\ end_date' = w[2]
    /\ current_end_date' = w[2]
    /\ amount_to_id' = EmptyDict
    /\ id_to_metadata' = EmptyDict
    /\ consumed' = <<>>
    /\ pages' = <<>>
    /\ tx_to_update_metadata' = EmptyDict
    /\ confirm_update' = <<>>
    /\ pos' = 0
    /\ calls' = <<>>
    /\ pre' = ledger
    /\ prev' = IF outcome = "applied" /\ calls # <<>> /\ rb_outcome = "none"
               THEN [NoPrev EXCEPT !.applied = TRUE, !.amount_to_id = amount_to_id]
               ELSE IF outcome = "failed" /\ rb_outcome = "none" /\ InterruptedPairs # {}
               THEN [NoPrev EXCEPT !.window = <<start_date, end_date>>,
                                   !.interrupted = CHOOSE p \in InterruptedPairs : TRUE]
               ELSE NoPrev
    /\ IF ValidDateRange(w[1], w[2])
       THEN pc' = "gather" /\ outcome' = "none"
       ELSE pc' = "idle" /\ outcome' = "invalid"
    /\ original_metadata' = EmptyDict
    /\ rb_calls' = <<>>
    /\ rb_pre' = ledger
    /\ rb_outcome' = "none"
    /\ UNCHANGED <<ledger, files>>
    /\ UNCHANGED origin

\* gather_transactions: one turn of the while loop, one sub-window fetched
\* (get_transactions_for_month answers [] when the request fails; an
\* exception it did not catch would end the script)
FetchPage ==
    /\ pc = "gather"
    /\ current_end_date > start_date
    /\ LET current_start_date == CurrentStart(current_end_date, start_date)
       IN \E ok \in BOOLEAN :
          \E transactions \in (IF ok THEN RemoteGet(ledger, current_start_date, current_end_date)
                                     ELSE {<<>>}) :
             LET index == IndexPage([amount_to_id |-> amount_to_id,
                                     id_to_metadata |-> id_to_metadata], transactions)
             IN /\ pages' = Append(pages, [s |-> current_start_date,
                                           e |-> current_end_date, ok |-> ok])
                /\ IF ok \/ FetchFailureCaught
                   THEN /\ amount_to_id' = index.amount_to_id
                        /\ id_to_metadata' = index.id_to_metadata
                        /\ consumed' = consumed \o transactions
                        /\ current_end_date' = current_start_date
                        /\ UNCHANGED <<pc, outcome>>
                   ELSE /\ pc' = "idle"
                        /\ outcome' = "crashed"
                        /\ UNCHANGED <<amount_to_id, id_to_metadata, consumed,
                                       current_end_date>>
    /\ UNCHANGED <<ledger, files, runs, start_date, end_date,
                   tx_to_update_metadata, confirm_update, pos, calls, pre, prev, rbLocals>>
    /\ UNCHANGED origin

\* variant: process_transactions writes the patch values into the fetched
\* records as well
ProcessInPlace ==
    /\ pc = "gather"
    /\ ~(current_end_date > start_date)
    /\ LET patch == ProcessTransactions(amount_to_id, id_to_metadata)
           patched(tx) == [k \in DOMAIN tx |->
                             IF k \in DOMAIN patch.val[tx.id]
                             THEN patch.val[tx.id][k] ELSE tx[k]]
       IN /\ tx_to_update_metadata' = patch
          /\ id_to_metadata' =
                [keys |-> id_to_metadata.keys,
                 val |-> [i \in KeySet(id_to_metadata) |->
                            IF Has(patch, i) THEN patched(id_to_metadata.val[i])
                            ELSE id_to_metadata.val[i]]]
    /\ consumed' = <<>>
    /\ pages' = <<>>
    /\ pc' = "confirm"
    /\ UNCHANGED <<ledger, files, runs, outcome, start_date, end_date, current_end_date,
                   amount_to_id, confirm_update, pos, calls, pre, prev, rbLocals>>
    /\ UNCHANGED origin

\* the while loop ends; process_transactions builds the patch (it reads the
\* two index maps and writes neither)
Process ==
    /\ pc = "gather"
    /\ ~(current_end_date > start_date)
    /\ tx_to_update_metadata' = ProcessTransactions(amount_to_id, id_to_metadata)
    /\ consumed' = <<>>
    /\ pages' = <<>>
    /\ pc' = "confirm"
    /\ UNCHANGED <<ledger, files, runs, outcome, start_date, end_date, current_end_date,
                   amount_to_id, id_to_metadata, confirm_update, pos, calls, pre,
                   prev, rbLocals>>
    /\ UNCHANGED origin

\* preview_and_confirm_updates, and main's branch on its answer
Confirm ==
    /\ pc = "confirm"
    /\ \E answer \in Answers :
          /\ confirm_update' = answer
          /\ IF Confirmed(answer)
             THEN pc' = "save" /\ outcome' = outcome
             ELSE pc' = "idle" /\ outcome' = "aborted"
    /\ UNCHANGED <<ledger, files, runs, start_date, end_date, current_end_date,
                   amount_to_id, id_to_metadata, consumed, pages,
                   tx_to_update_metadata, pos, calls, pre, prev, rbLocals>>
    /\ UNCHANGED origin

\* perform_updates, up to the update loop: the originals are saved
SaveOriginals ==
    /\ pc = "save"
    /\ files' = [files EXCEPT ![WindowFile(start_date, end_date)] =
                    [exists |-> TRUE,
                     data |-> JsonDump(OriginalMetadata(tx_to_update_metadata,
                                                        id_to_metadata))]]
    /\ pos' = 1
    /\ IF tx_to_update_metadata.keys = <<>>
       THEN pc' = "idle" /\ outcome' = "applied"
       ELSE pc' = "update" /\ outcome' = outcome
    /\ UNCHANGED <<ledger, runs, start_date, end_date, current_end_date, amount_to_id,
                   id_to_metadata, consumed, pages, tx_to_update_metadata,
                   confirm_update, calls, pre, prev, rbLocals>>
    /\ UNCHANGED origin

\* perform_updates: one turn of the update loop
UpdateStep ==
    /\ pc = "update"
    /\ LET tx_id == tx_to_update_metadata.keys[pos]
           metadata == tx_to_update_metadata.val[tx_id]
       IN \E ok \in BOOLEAN :
             /\ calls' = Append(calls, [path |-> PathOfId(tx_id), body |-> metadata,
                                        ok |-> ok])
             /\ ledger' = IF ok THEN RemotePut(ledger, PathOfId(tx_id), metadata)
                                ELSE ledger
             /\ IF ~ApplyContinues(ok)
                THEN pc' = "idle" /\ outcome' = "failed"
                ELSE IF pos < Len(tx_to_update_metadata.keys)
                THEN pc' = "update" /\ outcome' = outcome
                ELSE pc' = "idle" /\ outcome' = "applied"
             /\ pos' = pos + 1
    /\ UNCHANGED <<files, runs, start_date, end_date, current_end_date, amount_to_id,
                   id_to_metadata, consumed, pages, tx_to_update_metadata,
                   confirm_update, pre, prev, rbLocals>>
    /\ UNCHANGED origin

\* rollback_transactions, up to the loop: the originals are loaded
StartRollback ==
    /\ pc = "idle"
    /\ runs < MaxRuns
    /\ runs' = runs + 1
    /\ original_metadata' = LoadOriginalMetadata(files)
    /\ rb_calls' = <<>>
    /\ rb_pre' = ledger
    /\ pos' = 1
    /\ IF NoOriginals(original_metadata')
       THEN pc' = "idle" /\ rb_outcome' = "missing"
       ELSE pc' = "rollback" /\ rb_outcome' = "none"
    /\ UNCHANGED <<ledger, files, mainLocals>>
    /\ UNCHANGED origin

\* rollback_transactions: one turn of the loop
RollbackStep ==
    /\ pc = "rollback"
    /\ LET tx_id == original_metadata.keys[pos]
           original_data == original_metadata.val[tx_id]
       IN \E ok \in BOOLEAN :
             /\ rb_calls' = Append(rb_calls, [path |-> PathOfKey(tx_id),
                                              body |-> original_data, ok |-> ok])
             /\ ledger' = IF ok THEN RemotePut(ledger, PathOfKey(tx_id), original_data)
                                ELSE ledger
             /\ IF RollbackContinues(ok) /\ pos < Len(original_metadata.keys)
                THEN pc' = "rollback" /\ rb_outcome' = rb_outcome
                ELSE pc' = "idle" /\ rb_outcome' = "rolled"
             /\ pos' = pos + 1
    /\ UNCHANGED <<files, runs, mainLocals, original_metadata, rb_pre>>
    /\ UNCHANGED origin

\* between runs the operator may copy a saved window file to the one name
\* rollback_refunds.py reads
InstallSnapshot(w) ==
    /\ pc = "idle"
    /\ runs < MaxRuns
    /\ files[WindowFile(w[1], w[2])].exists
    /\ files[DefaultFile] # files[WindowFile(w[1], w[2])]
    /\ files' = [files EXCEPT ![DefaultFile] = files[WindowFile(w[1], w[2])]]
    /\ UNCHANGED <<ledger, pc, runs, mainLocals, pos, rbLocals>>
    /\ UNCHANGED origin

Next ==
    \/ \E w \in Windows : StartMain(w)
    \/ FetchPage
    \/ Process
    \/ Confirm
    \/ SaveOriginals
    \/ UpdateStep
    \/ StartRollback
    \/ RollbackStep
    \/ \E w \in Windows : InstallSnapshot(w)

Spec == Init /\ [][Next]_vars

\* the matching runs: gather_transactions and process_transactions only
NextMatch ==
    \/ \E w \in Windows : StartMain(w)
    \/ FetchPage
    \/ Process

SpecMatch == InitMatch /\ [][NextMatch]_vars

\* revert_transaction is called by neither script; a program that imports
\* consolidate_refunds may call it between script launches, with a record some
\* saved file holds for the id
Revert ==
    /\ pc = "idle"
    /\ \E n \in FileNames, i \in DOMAIN ledger, ok \in BOOLEAN :
          /\ files[n].exists
          /\ Has(files[n].data, ToString(i))
          /\ ledger' = RevertTransaction(ledger, i, files[n].data.val[ToString(i)], ok)
    /\ UNCHANGED <<files, pc, runs, mainLocals, pos, rbLocals, origin>>

\* the two scripts together with direct calls of the module's functions
NextLibrary ==
    \/ Next
    \/ Revert

SpecLibrary == Init /\ [][NextLibrary]_vars

\* the repeated runs: consolidate_refunds.py launched again and again
NextRerun ==
    \/ \E w \in Windows : StartMain(w)
    \/ FetchPage
    \/ Process
    \/ Confirm
    \/ SaveOriginals
    \/ UpdateStep

SpecRerun == InitRerun /\ [][NextRerun]_vars

\* ----------------------------------------------------------------- claims
\* the consolidate run is the latest script that ran
MainCurrent ==
    \/ pc \in {"gather", "confirm", "save", "update"}
    \/ pc = "idle" /\ outcome # "none" /\ rb_outcome = "none"

\* the patch of the latest consolidate run has been built
Processed ==
    \/ pc \in {"confirm", "save", "update"}
    \/ outcome \in {"aborted", "applied", "failed"}

Yes == <<"y","e","s">>

\* the file the running consolidate run saves its originals to
SnapshotFile == files[WindowFile(start_date, end_date)]

PatchIds == KeySet(tx_to_update_metadata)

\* the saved file holds, for exactly the ids of the patch, the record each id
\* had in the ledger when the run began
SnapshotHoldsOriginals ==
    /\ SnapshotFile.exists
    /\ KeySet(SnapshotFile.data) = {ToString(i) : i \in PatchIds}
    /\ \A i \in PatchIds : SnapshotFile.data.val[ToString(i)] = pre[i]

\* C1: a consolidate run reaches perform_updates, and issues an update, only
\* after the prompt was answered with a yes (in any letter case); a run that was
\* declined has issued no update and has left the ledger as it found it.
C1_NoUpdateWithoutConfirmation ==
    /\ (pc \in {"save", "update"} \/ calls # <<>>) => Lower(confirm_update) = Yes
    /\ outcome = "aborted" =>
          /\ calls = <<>>
          /\ Lower(confirm_update) # Yes
          /\ (pc = "idle" /\ rb_outcome = "none" => ledger = pre)

C1_Witness ==
    /\ outcome = "aborted"
    /\ pc = "idle"
    /\ rb_outcome = "none"
    /\ confirm_update = <<"y">>
    /\ Len(tx_to_update_metadata.keys) = 2
    /\ calls = <<>>
    /\ ledger = pre

\* C2: whenever the update loop is running or has issued an update, the file
\* named after the window already holds the original record of exactly the ids
\* of the patch.
C2_SnapshotBeforeFirstUpdate ==
    (pc = "update" \/ calls # <<>>) => SnapshotHoldsOriginals

C2_Witness ==
    /\ pc = "update"
    /\ Len(calls) = 1
    /\ calls[1].ok
    /\ SnapshotHoldsOriginals
    /\ \E i \in PatchIds : ledger[i] # pre[i]
                           /\ SnapshotFile.data.val[ToString(i)] # ledger[i]

\* C3: the updates issued by a consolidate run are the patch's entries in the
\* patch's order, each carrying its patch value; only the last issued update can
\* have failed, and a failed update ends the run with the failed id and every
\* id after it left as they were; the run issues no rollback update.
C3_FailFast ==
    /\ Len(calls) <= Len(tx_to_update_metadata.keys)
    /\ \A k \in DOMAIN calls :
          /\ calls[k].path = ToString(tx_to_update_metadata.keys[k])
          /\ calls[k].body = tx_to_update_metadata.val[tx_to_update_metadata.keys[k]]
          /\ (k < Len(calls) => calls[k].ok)
    /\ (calls # <<>> /\ ~calls[Len(calls)].ok) => (pc \in {"idle", "rollback"} /\ outcome = "failed")
    /\ outcome = "failed" => (calls # <<>> /\ ~calls[Len(calls)].ok)
    /\ (outcome = "failed" /\ MainCurrent) =>
          /\ rb_calls = <<>>
          /\ \A k \in Len(calls)..Len(tx_to_update_metadata.keys) :
                ledger[tx_to_update_metadata.keys[k]] = pre[tx_to_update_metadata.keys[k]]

C3_Witness ==
    /\ outcome = "failed"
    /\ MainCurrent
    /\ Len(tx_to_update_metadata.keys) = 2
    /\ Len(calls) = 1
    /\ ~calls[1].ok

\* C4: when a consolidate run stopped at a failed update and the rollback
\* script has then run with every update it issued succeeding, the file saved by
\* the consolidate run holds the originals of every id in the patch and every id
\* of the patch has its pre-patch payee and date again.
C4_RollbackAfterPartialFailure ==
    (/\ outcome = "failed"
     /\ pc = "idle"
     /\ rb_outcome \in {"missing", "rolled"}
     /\ \A k \in DOMAIN rb_calls : rb_calls[k].ok)
    => /\ SnapshotHoldsOriginals
       /\ \A i \in PatchIds : /\ ledger[i].payee = pre[i].payee
                              /\ ledger[i].date = pre[i].date

\* C5: a rollback run that finds no file to load reports it and ends: it never
\* enters its update loop, issues no update and leaves the ledger as it was.
C5_RollbackWithoutSnapshot ==
    ~files[DefaultFile].exists =>
        /\ pc # "rollback"
        /\ rb_calls = <<>>
        /\ rb_outcome # "rolled"
        /\ (rb_outcome = "missing" => pc = "idle" /\ ledger = rb_pre)

C5_Witness ==
    /\ ~files[DefaultFile].exists
    /\ rb_outcome = "missing"
    /\ pc = "idle"
    /\ rb_calls = <<>>
    /\ ledger = rb_pre

\* C6: the updates issued by a rollback run are the loaded snapshot's entries in
\* order, each carrying the stored record, whatever the earlier updates
\* returned; a finished rollback run has issued exactly one update per id.
C6_RollbackBestEffort ==
    /\ Len(rb_calls) <= Len(original_metadata.keys)
    /\ \A k \in DOMAIN rb_calls :
          /\ rb_calls[k].path = original_metadata.keys[k]
          /\ rb_calls[k].body = original_metadata.val[original_metadata.keys[k]]
    /\ \A j, k \in DOMAIN rb_calls : j # k => rb_calls[j].path # rb_calls[k].path
    /\ pc = "rollback" => /\ original_metadata = files[DefaultFile].data
                          /\ Len(rb_calls) = pos - 1
                          /\ pos <= Len(original_metadata.keys)
    /\ rb_outcome = "rolled" => Len(rb_calls) = Len(original_metadata.keys)
    /\ (rb_outcome = "none" /\ pc # "rollback") => rb_calls = <<>>

C6_Witness ==
    /\ rb_outcome = "rolled"
    /\ Len(original_metadata.keys) = 2
    /\ Len(rb_calls) = 2
    /\ ~rb_calls[1].ok
    /\ rb_calls[2].ok

\* the run before annotated the ledger with every update succeeding, no
\* rollback ran since, and this run has built its patch
RerunAfterApply == prev.applied /\ Processed

\* C7 as stated: when the run before annotated the ledger with every update
\* succeeding, this run's patch is empty.
C7_RerunPatchEmpty ==
    RerunAfterApply => tx_to_update_metadata = EmptyDict

\* C7 amended: when the run before annotated the ledger with every update
\* succeeding, this run's patch has no entry for a transaction that was
\* annotated when this run began, and the patch is empty when this run builds
\* the same amount index (the same ids under the same amounts, in the same
\* order).
C7_RerunSameIndexPatchEmpty ==
    RerunAfterApply =>
        /\ \A i \in DOMAIN ledger :
              Contains(RefundedWord, pre[i].payee) => ~Has(tx_to_update_metadata, i)
        /\ amount_to_id = prev.amount_to_id => tx_to_update_metadata = EmptyDict

C7_Witness ==
    /\ prev.applied
    /\ pc = "confirm"
    /\ amount_to_id = prev.amount_to_id
    /\ \E a \in KeySet(amount_to_id) :
          /\ a < 0
          /\ Has(amount_to_id, -a)
          /\ Contains(RefundedWord, id_to_metadata.val[amount_to_id.val[-a]].payee)
          /\ Contains(RefundedWord, pre[amount_to_id.val[a]].payee)
    /\ \E i, j \in DOMAIN ledger :
          /\ i # j
          /\ ~Contains(RefundedWord, pre[i].payee)
          /\ ~Contains(RefundedWord, pre[j].payee)
          /\ Float(pre[i].amount) = -Float(pre[j].amount)
          /\ pre[i].date # pre[j].date
    /\ tx_to_update_metadata = EmptyDict

\* the transactions gather_transactions has consumed, and what it indexed
ConsumedIds == {consumed[i].id : i \in DOMAIN consumed}
ConsumedAmounts == {Float(consumed[i].amount) : i \in DOMAIN consumed}
LastWithAmount(a) ==
    CHOOSE i \in DOMAIN consumed :
        /\ Float(consumed[i].amount) = a
        /\ \A j \in DOMAIN consumed : j > i => Float(consumed[j].amount) # a

\* C8: throughout gather_transactions the id map has one entry per distinct id
\* consumed so far, and the amount map sends every amount consumed so far to
\* the id of the last consumed transaction with that amount.
C8_IndexLastWins ==
    pc = "gather" =>
        /\ KeySet(id_to_metadata) = ConsumedIds
        /\ Range(id_to_metadata.keys) = ConsumedIds
        /\ Len(id_to_metadata.keys) = Cardinality(ConsumedIds)
        /\ KeySet(amount_to_id) = ConsumedAmounts
        /\ \A a \in ConsumedAmounts : amount_to_id.val[a] = consumed[LastWithAmount(a)].id

C8_Witness ==
    /\ pc = "gather"
    /\ ~(current_end_date > start_date)
    /\ Len(pages) = 2
    /\ Len(consumed) > Cardinality(ConsumedIds)
    /\ \E i, j \in DOMAIN consumed :
          /\ i < j
          /\ consumed[i].id # consumed[j].id
          /\ consumed[i].amount # consumed[j].amount
          /\ Float(consumed[i].amount) = Float(consumed[j].amount)
          /\ amount_to_id.val[Float(consumed[i].amount)] = consumed[j].id

\* the refund amounts the matcher pairs with a charge
MatchedAmounts == {a \in KeySet(amount_to_id) : a < 0 /\ Has(amount_to_id, -a)}
ChargeOf(a) == id_to_metadata.val[amount_to_id.val[-a]]
RefundOf(a) == id_to_metadata.val[amount_to_id.val[a]]

\* C9: for every refund the index pairs with a charge, when the two payees are
\* equal and free of "refunded" and the dates differ, the patch gives both ids
\* the same value: the payee followed by " (refunded)" and the charge's date.
C9_PairPatchedAlike ==
    Processed =>
        \A a \in MatchedAmounts :
            (/\ ChargeOf(a).payee = RefundOf(a).payee
             /\ ~Contains(RefundedWord, ChargeOf(a).payee)
             /\ ChargeOf(a).date # RefundOf(a).date)
            => /\ Has(tx_to_update_metadata, ChargeOf(a).id)
               /\ Has(tx_to_update_metadata, RefundOf(a).id)
               /\ tx_to_update_metadata.val[ChargeOf(a).id] =
                     [payee |-> ChargeOf(a).payee \o <<" ", "(">> \o RefundedWord \o <<")">>,
                      date |-> ChargeOf(a).date]
               /\ tx_to_update_metadata.val[RefundOf(a).id] =
                     tx_to_update_metadata.val[ChargeOf(a).id]
               /\ tx_to_update_metadata.val[RefundOf(a).id].date # RefundOf(a).date

C9_Witness ==
    /\ pc = "confirm"
    /\ \E a \in MatchedAmounts :
          /\ ChargeOf(a).payee = RefundOf(a).payee
          /\ ChargeOf(a).date # RefundOf(a).date
          /\ Has(tx_to_update_metadata, ChargeOf(a).id)
          /\ tx_to_update_metadata.val[RefundOf(a).id].date = ChargeOf(a).date

\* C10: for every refund the index pairs with a charge of the same date, the
\* patch has no entry for the charge and none for the refund.
C10_SameDateSkipped ==
    Processed =>
        \A a \in MatchedAmounts :
            ChargeOf(a).date = RefundOf(a).date
            => /\ ~Has(tx_to_update_metadata, ChargeOf(a).id)
               /\ ~Has(tx_to_update_metadata, RefundOf(a).id)

C10_Witness ==
    /\ pc = "confirm"
    /\ \E a \in MatchedAmounts :
          /\ ChargeOf(a).date = RefundOf(a).date
          /\ ChargeOf(a).payee = RefundOf(a).payee
          /\ ~Contains(RefundedWord, ChargeOf(a).payee)
          /\ tx_to_update_metadata = EmptyDict

C12_IdInAtMostOnePair ==
    LET charge_to_refund == ChargeToRefund(amount_to_id)
        charges == KeySet(charge_to_refund)
    IN /\ Len(charge_to_refund.keys) = Cardinality(MatchedAmounts)
       /\ \A c1, c2 \in charges :
             c1 # c2 => charge_to_refund.val[c1] # charge_to_refund.val[c2]
       /\ \A c1, c2 \in charges : charge_to_refund.val[c1] # c2

C12_Witness ==
    /\ pc = "confirm"
    /\ Len(ChargeToRefund(amount_to_id).keys) = 2
    /\ Cardinality(KeySet(ChargeToRefund(amount_to_id))
                   \cup Range([c \in DOMAIN ChargeToRefund(amount_to_id).keys |->
                                 ChargeToRefund(amount_to_id).val[
                                     ChargeToRefund(amount_to_id).keys[c]]])) = 4

\* the sub-windows whose fetch succeeded, and the ids the ledger holds in them
OkPages == {k \in DOMAIN pages : pages[k].ok}
OkPageIds == UNION {InRange(ledger, pages[k].s, pages[k].e) : k \in OkPages}

\* the while loop of gather_transactions has ended
GatherDone == pc = "gather" /\ ~(current_end_date > start_date)

\* C13: a failed sub-window fetch does not end the run; the sub-windows are
\* issued one after the other down to start_date whether or not a fetch
\* failed; and the index holds exactly the records of the sub-windows whose
\* fetch succeeded (none when every fetch failed).
C13_FailedPageIsEmpty ==
    /\ (pages # <<>> /\ ~pages[Len(pages)].ok) => pc = "gather"
    /\ pc = "gather" =>
          /\ \A k \in DOMAIN pages :
                /\ pages[k].e = (IF k = 1 THEN end_date ELSE pages[k - 1].s)
                /\ pages[k].s = Max(pages[k].e - 30, start_date)
          /\ current_end_date = (IF pages = <<>> THEN end_date ELSE pages[Len(pages)].s)
          /\ (GatherDone /\ pages # <<>>) => pages[Len(pages)].s = start_date
          /\ KeySet(id_to_metadata) = OkPageIds
          /\ \A i \in OkPageIds : id_to_metadata.val[i] = ledger[i]
          /\ KeySet(amount_to_id) = {Float(ledger[i].amount) : i \in OkPageIds}
          /\ \A a \in KeySet(amount_to_id) :
                /\ amount_to_id.val[a] \in OkPageIds
                /\ Float(ledger[amount_to_id.val[a]].amount) = a
          /\ ConsumedIds = OkPageIds

C13_Witness ==
    /\ GatherDone
    /\ Len(pages) = 2
    /\ ~pages[1].ok
    /\ pages[2].ok
    /\ InRange(ledger, pages[1].s, pages[1].e) \ OkPageIds # {}
    /\ OkPageIds # {}
    /\ KeySet(id_to_metadata) = OkPageIds

\* the refund amounts whose indexed pair passes the three conditions
QualifyingAmounts ==
    {a \in MatchedAmounts :
        /\ ChargeOf(a).payee = RefundOf(a).payee
        /\ ChargeOf(a).date # RefundOf(a).date
        /\ ~Contains(RefundedWord, ChargeOf(a).payee)}

\* C14: the ids of the patch are exactly the charge ids and refund ids of the
\* qualifying pairs, and every patch value has the two fields payee and date
\* and no other; a run whose updates all succeeded has sent one request per
\* patch id, to that id's path, carrying those two fields only, and has left
\* every other transaction, and the id and amount of the patched ones, as they
\* were when the run began.
C14_PatchTouchesPairsOnly ==
    /\ Processed =>
          /\ PatchIds = {ChargeOf(a).id : a \in QualifyingAmounts}
                            \cup {RefundOf(a).id : a \in QualifyingAmounts}
          /\ \A i \in PatchIds : DOMAIN tx_to_update_metadata.val[i] = {"payee", "date"}
    /\ outcome = "applied" =>
          /\ Len(calls) = Len(tx_to_update_metadata.keys)
          /\ \A k \in DOMAIN calls :
                /\ calls[k].path = ToString(tx_to_update_metadata.keys[k])
                /\ DOMAIN calls[k].body = {"payee", "date"}
          /\ MainCurrent =>
                /\ \A i \in DOMAIN ledger \ PatchIds : ledger[i] = pre[i]
                /\ \A i \in PatchIds :
                      /\ ledger[i].id = pre[i].id
                      /\ ledger[i].amount = pre[i].amount
                      /\ ledger[i].payee = tx_to_update_metadata.val[i].payee
                      /\ ledger[i].date = tx_to_update_metadata.val[i].date

C14_Witness ==
    /\ outcome = "applied"
    /\ MainCurrent
    /\ Len(calls) = 2
    /\ \E i \in DOMAIN ledger \ PatchIds :
          /\ ledger[i] = pre[i]
          /\ \E j \in PatchIds : ledger[j] # pre[j] /\ pre[j].payee = pre[i].payee

\* C15: the step that runs process_transactions leaves the amount index, the
\* record index and the ledger as they were, each indexed record being the
\* ledger's record as fetched; and the step that saves the originals writes,
\* for exactly the ids of the patch, the record as fetched, whose payee is not
\* the patched payee.
C15_ProcessIsPure ==
    [][/\ (pc = "gather" /\ pc' = "confirm") =>
             /\ amount_to_id' = amount_to_id
             /\ id_to_metadata' = id_to_metadata
             /\ ledger' = ledger
             /\ \A i \in KeySet(id_to_metadata') : id_to_metadata'.val[i] = ledger[i]
       /\ (pc = "save" /\ pc' # "save") =>
             LET saved == files'[WindowFile(start_date, end_date)]
             IN /\ saved.exists
                /\ KeySet(saved.data) = {ToString(i) : i \in PatchIds}
                /\ \A i \in PatchIds :
                      /\ saved.data.val[ToString(i)] = ledger[i]
                      /\ saved.data.val[ToString(i)].payee #
                            tx_to_update_metadata.val[i].payee
      ]_vars

C15_Witness ==
    /\ pc = "update"
    /\ pos = 1
    /\ \E i \in PatchIds :
          /\ id_to_metadata.val[i] = ledger[i]
          /\ SnapshotFile.data.val[ToString(i)] = id_to_metadata.val[i]
          /\ SnapshotFile.data.val[ToString(i)].date # tx_to_update_metadata.val[i].date
          /\ SnapshotFile.data.val[ToString(i)].payee # tx_to_update_metadata.val[i].payee

\* the saved file of window w holds the record transaction i had before any
\* script ran
HoldsOriginal(w, i) ==
    LET saved == files[WindowFile(w[1], w[2])]
    IN /\ saved.exists
       /\ Has(saved.data, ToString(i))
       /\ saved.data.val[ToString(i)].payee = origin[i].payee
       /\ saved.data.val[ToString(i)].date = origin[i].date

\* C16: every transaction whose payee or date differs from the original (it was
\* annotated and has not been rolled back) has its original payee and date in
\* the saved file of some window, whatever consolidate runs followed the one
\* that annotated it.
C16_SnapshotKeepsOriginals ==
    \A i \in DOMAIN ledger :
        (ledger[i].payee # origin[i].payee \/ ledger[i].date # origin[i].date)
        => \E w \in Windows : HoldsOriginal(w, i)

\* C17: when the while loop of gather_transactions has ended on an accepted
\* range, it has fetched finitely many sub-windows (no more than one per 30
\* days of the range, plus one), each at most 30 days long, each ending where
\* the one before began, and every date from start_date to end_date lies in
\* one of them.
C17_WindowsCoverRange ==
    GatherDone =>
        /\ start_date <= end_date
        /\ Len(pages) <= ((end_date - start_date) \div 30) + 1
        /\ \A k \in DOMAIN pages :
              /\ pages[k].s <= pages[k].e
              /\ pages[k].e - pages[k].s <= 30
              /\ pages[k].e = (IF k = 1 THEN end_date ELSE pages[k - 1].s)
        /\ \A d \in start_date..end_date :
              \E k \in DOMAIN pages : pages[k].s <= d /\ d <= pages[k].e

\* the place of id i in the patch's order
PatchIndex(i) == CHOOSE k \in DOMAIN tx_to_update_metadata.keys :
                    tx_to_update_metadata.keys[k] = i

\* C18: for every qualifying pair the patch lists the charge right before the
\* refund, every update request for the refund comes after one for the charge,
\* and while the consolidate run is the latest script, a refund that differs
\* from its record at run start has a charge that differs too.
C18_ChargeBeforeRefund ==
    (MainCurrent /\ Processed) =>
        \A a \in QualifyingAmounts :
            /\ PatchIndex(RefundOf(a).id) = PatchIndex(ChargeOf(a).id) + 1
            /\ \A k \in DOMAIN calls :
                  calls[k].path = ToString(RefundOf(a).id)
                  => \E j \in 1..(k - 1) :
                        calls[j].path = ToString(ChargeOf(a).id) /\ calls[j].ok
            /\ ledger[RefundOf(a).id] # pre[RefundOf(a).id]
                  => ledger[ChargeOf(a).id] # pre[ChargeOf(a).id]

C18_Witness ==
    /\ MainCurrent
    /\ outcome = "failed"
    /\ \E a \in QualifyingAmounts :
          /\ Len(calls) = 2
          /\ calls[1].path = ToString(ChargeOf(a).id)
          /\ calls[2].path = ToString(RefundOf(a).id)
          /\ ~calls[2].ok
          /\ ledger[ChargeOf(a).id] # pre[ChargeOf(a).id]
          /\ ledger[RefundOf(a).id] = pre[RefundOf(a).id]

\* the run before stopped between a charge and its refund, no rollback ran
\* since, and this run, over the same window, has built its patch
RerunAfterInterruption ==
    /\ prev.interrupted # <<>>
    /\ prev.window = <<start_date, end_date>>
    /\ Processed

\* this run's amount index maps the interrupted charge's amount to that charge
\* again, or to nothing
SameChargeIndexed ==
    LET amount == Float(ledger[prev.interrupted[1]].amount)
    IN Has(amount_to_id, amount) => amount_to_id.val[amount] = prev.interrupted[1]

\* C19 as stated: after a run that stopped with a pair's charge updated and its
\* refund not, a run over the same window has no patch entry for the charge and
\* none for the refund.
C19_RerunSkipsInterruptedPair ==
    RerunAfterInterruption =>
        /\ ~Has(tx_to_update_metadata, prev.interrupted[1])
        /\ ~Has(tx_to_update_metadata, prev.interrupted[2])

\* C19 amended: after such a run, a run over the same window whose amount index
\* does not map the charge's amount to another transaction has no patch entry
\* for the charge and none for the refund, and while it is the latest script the
\* charge stays annotated and the refund stays as it was; the charge has no
\* patch entry in any case.
C19_RerunSameIndexSkipsPair ==
    RerunAfterInterruption =>
        /\ ~Has(tx_to_update_metadata, prev.interrupted[1])
        /\ SameChargeIndexed =>
              /\ ~Has(tx_to_update_metadata, prev.interrupted[2])
              /\ MainCurrent =>
                    /\ ledger[prev.interrupted[1]] = pre[prev.interrupted[1]]
                    /\ ledger[prev.interrupted[2]] = pre[prev.interrupted[2]]
                    /\ Contains(RefundedWord, ledger[prev.interrupted[1]].payee)
                    /\ ~Contains(RefundedWord, ledger[prev.interrupted[2]].payee)

C19_Witness ==
    /\ RerunAfterInterruption
    /\ outcome = "applied"
    /\ MainCurrent
    /\ Has(amount_to_id, Float(ledger[prev.interrupted[1]].amount))
    /\ Has(amount_to_id, Float(ledger[prev.interrupted[2]].amount))
    /\ amount_to_id.val[Float(ledger[prev.interrupted[1]].amount)] = prev.interrupted[1]
    /\ amount_to_id.val[Float(ledger[prev.interrupted[2]].amount)] = prev.interrupted[2]
    /\ tx_to_update_metadata = EmptyDict
    /\ ~Contains(RefundedWord, ledger[prev.interrupted[2]].payee)

====
